---- MODULE Spec2Model ----
(***************************************************************************)
(* Transactional ledger and PIX reconciliation engine of pix_checker:      *)
(* database.py (users / transactions tables on PostgreSQL), the deposit    *)
(* confirmation processar_pagamento_aprovado and the poller of             *)
(* pix_checker.py / main.py, and the /verificar, /pix, /sacar handlers of  *)
(* main.py.                                                                *)
(*                                                                         *)
(* Money is counted in cents.  A Python float / Decimal that has not yet   *)
(* been stored is counted in 1/100 of a cent ("raw" units, 4 decimals),    *)
(* and a NUMERIC(15,2) column rounds it to cents when it is written.       *)
(*                                                                         *)
(* A connection is a PostgreSQL transaction in READ COMMITTED mode: its    *)
(* writes are kept in the thread's write set and reach the committed       *)
(* tables at COMMIT; a statement that raises a server error aborts the     *)
(* transaction, every later statement on it fails, and COMMIT of an        *)
(* aborted transaction commits nothing and raises nothing.                 *)
(***************************************************************************)
EXTENDS Integers, Sequences, FiniteSets, TLC

\* ------------------------------------------------------------------ bounds
MaxUsers == 2          \* telegram ids 1..MaxUsers
MaxDeposits == 1       \* /pix requests accepted over a run
MaxFaults == 1         \* server errors injected over a run
MaxClock == 3          \* hours the clock advances over a run
MaxBatch == 2          \* /pix requests accepted over a run of the poller alone
MaxSaques == 1         \* /sacar requests over a run
MaxAdmin == 1          \* admin_set_balance calls over a run
MaxCalls == 2          \* direct update_balance calls over a run
MaxPedidos == 2        \* /sacar requests of one user, in flight together
MaxOps == 4            \* /pix, /sacar and admin requests of one user over a run

\* ------------------------------------------------- configuration (config.py)
STATUS_DEPOSITO_PENDENTE == "AGUARDANDO PAGAMENTO"
STATUS_DEPOSITO_PAGO == "PAGO"
STATUS_EM_ANALISE == "EM ANALISE"
STATUS_CONCLUIDO == "CONCLUIDO"
STATUS_RECUSADO == "RECUSADO"
TAXA_DEPOSITO_PERCENTUAL == 11     \* percent
TAXA_SAQUE_FIXA == 200             \* cents
TAXA_SAQUE_PERCENTUAL == 5         \* percent
LIMITE_MINIMO_SAQUE == 1000        \* cents
JanelaHoras == 2                   \* get_pending_pix_transactions(hours=2)

UserIds == 1..MaxUsers
FirstNames == {"ana", "bia"}       \* the names a profile may carry
Pollers == {"poller"}
Handlers == {"h1", "h2"}
Threads == Pollers \cup Handlers
DepositValues == {7550, 10000}     \* /pix 75.50, /pix 100
FundingValues == {10000}           \* the deposits that fund the withdrawals
Depositors == {1}                  \* the user whose deposits age past the window
SaqueValues == {5000, 10000}       \* /sacar <chave> 50, /sacar <chave> 100
SaquePedidos == {150, 1000, 8900, 10000}   \* /sacar <chave> 1.50, 10, 89, 100
AdminValues == {-20000, 20000}      \* balances an admin sets
DeltaValues == {-6000, 4000}       \* amount_change of direct update_balance calls

\* ------------------------------------------------------------------ state
VARIABLES
    users,          \* table users: telegram_id -> [exists, balance]
    transactions,   \* table transactions: the committed rows
    nextId,         \* the SERIAL sequence of transactions.id
    gateway,        \* payment gateway: payment id -> status
    now,            \* wall clock, in hours
    rowLock,        \* row locks on users: telegram_id -> [owner, mode]
    th,             \* threads: position and locals of each
    faults,         \* server errors injected so far
    credited,       \* ids of the deposits credited, one entry per committed credit
    okDelta,        \* telegram_id -> sum of the deltas of successful direct update_balance calls
    calls           \* [pix, saque, admin, direct]: requests issued so far

vars == <<users, transactions, nextId, gateway, now, rowLock, th, faults,
          credited, okDelta, calls>>

NoNote == [kind |-> "", id |-> 0]
NoTx == [id |-> 0, user_telegram_id |-> 0, type |-> "", amount |-> 0,
         status |-> "", mercado_pago_id |-> 0, admin_notes |-> NoNote,
         created_at |-> 0]
NoLock == [owner |-> "", mode |-> ""]
NoConn == [aborted |-> FALSE, wbal |-> <<>>, wrows |-> {}, wstatus |-> {}]
NoRets == [credit |-> "", fee |-> -1, status |-> ""]

IdleThread ==
    [pc |-> "idle", user |-> 0, transaction |-> NoTx, resp |-> "",
     batch |-> <<>>, amount |-> 0, net |-> 0, fee |-> 0, wid |-> -1,
     conn |-> NoConn, rets |-> NoRets, result |-> "", stale |-> FALSE,
     saldo_atual |-> 0]

\* -------------------------------------------------------------- arithmetic
\* NUMERIC(15,2): a raw value is rounded to cents, ties away from zero.
NumericRound(raw) ==
    IF raw >= 0 THEN (raw + 50) \div 100 ELSE 0 - ((50 - raw) \div 100)

\* taxa_deposito = valor_deposito * taxa_percentual (raw units)
TaxaDeposito(valor_deposito) == valor_deposito * TAXA_DEPOSITO_PERCENTUAL

\* valor_liquido = valor_deposito - taxa_deposito (raw units)
ValorLiquido(valor_deposito) == valor_deposito * 100 - TaxaDeposito(valor_deposito)

\* ------------------------------------------------------------------ tables
Row(id, user, type, amount, status, mp_id, note, created) ==
    [id |-> id, user_telegram_id |-> user, type |-> type, amount |-> amount,
     status |-> status, mercado_pago_id |-> mp_id, admin_notes |-> note,
     created_at |-> created]

RECURSIVE SortById(_)
SortById(rows) ==
    IF rows = {} THEN <<>>
    ELSE LET first == CHOOSE r \in rows : \A s \in rows : r.id <= s.id
         IN <<first>> \o SortById(rows \ {first})

\* (mutant) the query has no condition on created_at
PendingPixAnyAge(rows, clock, hours) ==
    {r \in rows : r.type = "DEPOSIT" /\ r.status = STATUS_DEPOSITO_PENDENTE}

\* SELECT * FROM transactions WHERE type = 'DEPOSIT' AND status = %s AND created_at >= %s
PendingPix(rows, clock, hours) ==
    {r \in rows : /\ r.type = "DEPOSIT"
                  /\ r.status = STATUS_DEPOSITO_PENDENTE
                  /\ r.created_at >= clock - hours}

\* (mutant) the SELECT does not name the user
TransactionById(rows, id, user) == {r \in rows : r.id = id}

\* SELECT * FROM transactions WHERE id = %s AND user_telegram_id = %s
TransactionByIdAndUser(rows, id, user) ==
    {r \in rows : r.id = id /\ r.user_telegram_id = user}

\* (mutant) the SELECT takes no row lock
SelectWithoutLock(t, u) == TRUE

\* The row lock FOR UPDATE waits for any lock another transaction holds.
CanLockForUpdate(t, u) == rowLock[u].owner \in {"", t}

\* The FOR KEY SHARE lock an INSERT takes on the referenced users row waits
\* only for a FOR UPDATE lock of another transaction.
CanKeyShare(t, u) == rowLock[u].owner \in {"", t} \/ rowLock[u].mode = "nokey"

ReleaseLocks(t) ==
    [u \in UserIds |-> IF rowLock[u].owner = t THEN NoLock ELSE rowLock[u]]

\* COMMIT: the write set of a connection reaches the tables; an aborted
\* transaction commits nothing.
CommitUsers(conn) ==
    IF conn.aborted \/ conn.wbal = <<>> THEN users
    ELSE [users EXCEPT ![conn.wbal[1].user].balance = conn.wbal[1].balance]

\* (mutant) the UPDATE of the status has no WHERE clause
EveryRow(w, r) == TRUE

\* UPDATE transactions SET status = ... WHERE id = %s
WhereId(w, r) == w.id = r.id

CommitTransactions(conn) ==
    IF conn.aborted THEN transactions
    ELSE {IF \E w \in conn.wstatus : WhereId(w, r)
            THEN [r EXCEPT !.status = (CHOOSE w \in conn.wstatus : WhereId(w, r)).status]
            ELSE r : r \in transactions} \cup conn.wrows

\* ------------------------------------------------------- database.py helpers
\* update_balance: new_balance = current_balance + amount_change (raw units);
\* a missing row reads as 0.00.
NewBalanceRaw(u, amount_change) ==
    (IF users[u].exists THEN users[u].balance ELSE 0) * 100 + amount_change

\* (mutant) the check of the new balance is missing
NoNegativeCheck(u, amount_change) == FALSE

\* if new_balance < 0: return False
WouldGoNegative(u, amount_change) == NewBalanceRaw(u, amount_change) < 0

\* (mutant) a failed statement leaves the transaction usable
StillUsable(conn) == conn

\* A server error inside a transaction leaves it aborted.
Aborted(conn) == [conn EXCEPT !.aborted = TRUE]

\* update_balance(telegram_id, amount_change, conn_ext=conn): the connection
\* after the call.  The UPDATE touches no row when the user does not exist.
UpdateBalanceConn(conn, u, amount_change) ==
    IF users[u].exists
    THEN [conn EXCEPT !.wbal =
            <<[user |-> u, balance |-> NumericRound(NewBalanceRaw(u, amount_change))]>>]
    ELSE conn

\* (mutant) record_transaction commits although it was given conn_ext
CommitsAtOnce(row) == transactions \cup {row}

\* if not is_external_conn: conn.commit() - with conn_ext the helper does not
\* commit, and the committed table is as it was.
VisibleAfterInsert(row) == transactions

\* record_transaction(..., conn_ext=conn): the connection after the INSERT.
RecordTransactionConn(conn, row) == [conn EXCEPT !.wrows = @ \cup {row}]

\* (mutant) the UPDATE of the status is missing
NoStatusUpdate(conn, id, new_status) == conn

\* update_transaction_status(id, new_status, conn_ext=conn)
UpdateStatusConn(conn, id, new_status) ==
    [conn EXCEPT !.wstatus = @ \cup {[id |-> id, status |-> new_status]}]

TypeOK ==
    /\ nextId \in Nat
    /\ now \in 0..MaxClock
    /\ faults \in 0..MaxFaults
    /\ \A u \in UserIds : users[u].exists \in BOOLEAN /\ users[u].balance \in Int
    /\ \A r \in transactions : r.id \in 1..(nextId - 1)
    /\ \A t \in Threads : th[t].pc \in STRING

Init ==
    /\ users = [u \in UserIds |-> [exists |-> FALSE, balance |-> 0, first_name |-> ""]]
    /\ transactions = {}
    /\ nextId = 1
    /\ gateway = <<>>
    /\ now = 0
    /\ rowLock = [u \in UserIds |-> NoLock]
    /\ th = [t \in Threads |-> IdleThread]
    /\ faults = 0
    /\ credited = <<>>
    /\ okDelta = [u \in UserIds |-> 0]
    /\ calls = [pix |-> 0, saque |-> 0, admin |-> 0, direct |-> 0]

\* ------------------------------------------------------------- environment
\* The payer pays (or the gateway rejects) a payment that is still pending.
GatewaySettle(ref, status) ==
    /\ ref \in DOMAIN gateway
    /\ gateway[ref] = "pending"
    /\ gateway' = [gateway EXCEPT ![ref] = status]
    /\ UNCHANGED <<users, transactions, nextId, now, rowLock, th, faults,
                   credited, okDelta, calls>>

Tick ==
    /\ now < MaxClock
    /\ now' = now + 1
    /\ UNCHANGED <<users, transactions, nextId, gateway, rowLock, th, faults,
                   credited, okDelta, calls>>

\* pay.get_payment_details(mercado_pago_id): the status the gateway holds, or
\* no response at all.
GatewayAnswers(ref) ==
    (IF ref \in DOMAIN gateway THEN {gateway[ref]} ELSE {}) \cup {"none"}

\* --------------------------------------------------- main.py: /start, /pix
\* create_user_if_not_exists: INSERT ... ON CONFLICT (telegram_id) DO NOTHING
\* (mutant) the INSERT replaces the row of a user that exists
InsertOrReplace(u, first_name) ==
    [users EXCEPT ![u] = [exists |-> TRUE, balance |-> 0, first_name |-> first_name]]

\* INSERT INTO users (telegram_id, username, first_name, balance, created_at)
\* VALUES (%s, %s, %s, 0.00, %s) ON CONFLICT (telegram_id) DO NOTHING; commit.
\* first_name stands for the profile columns username and first_name.
InsertOnConflictDoNothing(u, first_name) ==
    IF users[u].exists THEN users
    ELSE [users EXCEPT ![u] = [exists |-> TRUE, balance |-> 0, first_name |-> first_name]]

\* create_user_if_not_exists(user.id, user.username, user.first_name) for a
\* user who keeps the name of the first contact
CreateUserIfNotExists(u) == InsertOnConflictDoNothing(u, "ana")

HandleStart(u) ==
    /\ ~users[u].exists
    /\ users' = CreateUserIfNotExists(u)
    /\ UNCHANGED <<transactions, nextId, gateway, now, rowLock, th, faults,
                   credited, okDelta, calls>>

\* handle_start by a user who may exist already and may have changed the
\* name of the profile: create_user_if_not_exists, saldo = get_balance, reply.
HandleStartAgain(t, u, first_name) ==
    /\ t \in Handlers
    /\ th[t].pc = "idle"
    /\ users' = InsertOnConflictDoNothing(u, first_name)
    /\ th' = [th EXCEPT ![t] = [IdleThread EXCEPT !.result = "start", !.user = u,
                                  !.resp = first_name,
                                  !.amount = users'[u].balance]]
    /\ UNCHANGED <<transactions, nextId, gateway, now, rowLock, faults,
                   credited, okDelta, calls>>

\* handle_pix_deposit: the gateway creates the payment, then the DEPOSIT row
\* is recorded on a connection of its own.  The INSERT fails on the foreign
\* key when the user has no row; the sequence value is consumed all the same.
RecordDeposit(u, valor) ==
    /\ CanKeyShare("", u)
    /\ calls' = [calls EXCEPT !.pix = @ + 1]
    /\ gateway' = Append(gateway, "pending")
    /\ nextId' = nextId + 1
    /\ transactions' =
         IF users[u].exists
         THEN transactions \cup
                {Row(nextId, u, "DEPOSIT", valor, STATUS_DEPOSITO_PENDENTE,
                     Len(gateway) + 1, NoNote, now)}
         ELSE transactions
    /\ UNCHANGED <<users, now, rowLock, th, faults, credited, okDelta>>

HandlePixDeposit(u, valor) ==
    /\ calls.pix < MaxDeposits
    /\ RecordDeposit(u, valor)

\* ---------------------------------- processar_pagamento_aprovado(transaction)
\* if not transaction or transaction['status'] != config.STATUS_DEPOSITO_PENDENTE
StatusIsPending(transaction) == transaction.status = STATUS_DEPOSITO_PENDENTE

\* The committed row of the deposit is already PAID when the call is made.
AlreadyPaid(id) ==
    \E r \in transactions : r.id = id /\ r.status = STATUS_DEPOSITO_PAGO

\* The call processar_pagamento_aprovado(transaction), up to the connection it
\* opens: the thread record of the caller `rec` once the call is under way.
Invoke(rec, transaction, resp) ==
    IF ~StatusIsPending(transaction)
    THEN [rec EXCEPT !.pc = "returned", !.transaction = transaction,
                     !.resp = resp, !.result = "False",
                     !.stale = AlreadyPaid(transaction.id)]
    ELSE [rec EXCEPT !.pc = "credit", !.transaction = transaction, !.resp = resp,
                     !.user = transaction.user_telegram_id,
                     !.fee = TaxaDeposito(transaction.amount),
                     !.net = ValorLiquido(transaction.amount),
                     !.conn = NoConn, !.rets = NoRets,
                     !.stale = AlreadyPaid(transaction.id)]

\* 1. database.update_balance(user_id, float(valor_liquido), conn_ext=conn_atomic)
ProcessarCredit(t) ==
    LET u == th[t].user IN
    /\ th[t].pc = "credit"
    /\ CanLockForUpdate(t, u)
    /\ rowLock' = IF users[u].exists
                  THEN [rowLock EXCEPT ![u] = [owner |-> t, mode |-> "update"]]
                  ELSE rowLock
    /\ th' = [th EXCEPT ![t].pc = "fee",
                ![t].conn = IF WouldGoNegative(u, th[t].net) THEN @
                            ELSE UpdateBalanceConn(@, u, th[t].net),
                ![t].rets.credit = IF WouldGoNegative(u, th[t].net)
                                   THEN "False" ELSE "True"]
    /\ UNCHANGED <<users, transactions, nextId, gateway, now, faults, credited,
                   okDelta, calls>>

FeeNote(id) == [kind |-> "Taxa de deposito referente a transacao ID", id |-> id]

\* 2. database.record_transaction(type="FEE", amount=float(taxa_deposito), ...)
\* On an aborted transaction the INSERT fails and None (0) is returned; it
\* fails on the foreign key, aborting the transaction, when the user has no row.
ProcessarFee(t) ==
    LET u == th[t].user
        row == Row(nextId, u, "FEE", NumericRound(th[t].fee), STATUS_CONCLUIDO,
                   0, FeeNote(th[t].transaction.id), now)
    IN
    /\ th[t].pc = "fee"
    /\ IF th[t].conn.aborted
       THEN /\ th' = [th EXCEPT ![t].pc = "status", ![t].rets.fee = 0]
            /\ UNCHANGED nextId
       ELSE /\ CanKeyShare(t, u)
            /\ nextId' = nextId + 1
            /\ th' = [th EXCEPT ![t].pc = "status",
                        ![t].conn = IF users[u].exists
                                    THEN RecordTransactionConn(@, row) ELSE Aborted(@),
                        ![t].rets.fee = IF users[u].exists THEN nextId ELSE 0]
    /\ transactions' = VisibleAfterInsert(row)
    /\ UNCHANGED <<users, gateway, now, rowLock, faults, credited, okDelta, calls>>

\* 3. database.update_transaction_status(transaction_id, STATUS_DEPOSITO_PAGO, conn_ext=conn_atomic)
ProcessarStatus(t) ==
    /\ th[t].pc = "status"
    /\ th' = [th EXCEPT ![t].pc = "commit",
                ![t].conn = IF @.aborted THEN @
                            ELSE UpdateStatusConn(@, th[t].transaction.id,
                                                  STATUS_DEPOSITO_PAGO),
                ![t].rets.status = IF th[t].conn.aborted THEN "False" ELSE "True"]
    /\ UNCHANGED <<users, transactions, nextId, gateway, now, rowLock, faults,
                   credited, okDelta, calls>>

\* except psycopg2.Error inside a helper that was given conn_ext: the statement
\* raised a server error, the helper logs it and returns False / None, and the
\* transaction of the caller is left aborted.
ProcessarError(t) ==
    /\ th[t].pc \in {"credit", "fee", "status"}
    /\ ~th[t].conn.aborted
    /\ faults < MaxFaults
    /\ faults' = faults + 1
    /\ th' = [th EXCEPT
                ![t].pc = CASE th[t].pc = "credit" -> "fee"
                            [] th[t].pc = "fee" -> "status"
                            [] OTHER -> "commit",
                ![t].conn = Aborted(@),
                ![t].rets = CASE th[t].pc = "credit" -> [@ EXCEPT !.credit = "False"]
                              [] th[t].pc = "fee" -> [@ EXCEPT !.fee = 0]
                              [] OTHER -> [@ EXCEPT !.status = "False"]]
    /\ UNCHANGED <<users, transactions, nextId, gateway, now, rowLock, credited,
                   okDelta, calls>>

\* conn_atomic.commit()
ProcessarCommit(t) ==
    /\ th[t].pc = "commit"
    /\ users' = CommitUsers(th[t].conn)
    /\ transactions' = CommitTransactions(th[t].conn)
    /\ rowLock' = ReleaseLocks(t)
    /\ credited' = IF ~th[t].conn.aborted /\ th[t].conn.wbal # <<>>
                   THEN Append(credited, th[t].transaction.id) ELSE credited
    /\ th' = [th EXCEPT ![t].pc = "notify"]
    /\ UNCHANGED <<nextId, gateway, now, faults, okDelta, calls>>

\* 4. bot.send_message(user_id, ...); return True
ProcessarNotify(t) ==
    /\ th[t].pc = "notify"
    /\ th' = [th EXCEPT ![t].pc = "returned", ![t].result = "True"]
    /\ UNCHANGED <<users, transactions, nextId, gateway, now, rowLock, faults,
                   credited, okDelta, calls>>

\* (mutant) the rollback of the except clause takes back the credit
UndoesCredit(t) ==
    IF th[t].conn.aborted \/ th[t].conn.wbal = <<>> THEN users
    ELSE [users EXCEPT ![th[t].user].balance = @ - NumericRound(th[t].net)]

\* conn_atomic.rollback() in the except clause, reached after the commit: the
\* connection has no transaction in progress and nothing is taken back.
RollbackAfterCommit(t) == users

\* bot.send_message raises (user blocked the bot, network error): except
\* Exception runs conn_atomic.rollback() and the call returns False.
ProcessarNotifyFails(t) ==
    /\ th[t].pc = "notify"
    /\ users' = RollbackAfterCommit(t)
    /\ th' = [th EXCEPT ![t].pc = "returned", ![t].result = "False"]
    /\ UNCHANGED <<transactions, nextId, gateway, now, rowLock, faults,
                   credited, okDelta, calls>>

\* The value returned reaches the caller: the poller goes on with the rest of
\* its batch, the /verificar handler replies and ends.
ProcessarReturn(t) ==
    LET rest == IF th[t].batch = <<>> THEN <<>> ELSE Tail(th[t].batch) IN
    /\ th[t].pc = "returned"
    /\ th' = [th EXCEPT ![t] =
         IF rest = <<>> THEN IdleThread
         ELSE [IdleThread EXCEPT !.pc = "query", !.batch = rest]]
    /\ UNCHANGED <<users, transactions, nextId, gateway, now, rowLock, faults,
                   credited, okDelta, calls>>

Processar(t) ==
    \/ ProcessarCredit(t)
    \/ ProcessarFee(t)
    \/ ProcessarStatus(t)
    \/ ProcessarCommit(t)
    \/ ProcessarNotify(t)
    \/ ProcessarReturn(t)

\* ------------------------------------- iniciar_verificador (the poller loop)
\* pending_transactions = database.get_pending_pix_transactions(hours=2)
\* The loop sleeps in "idle" after a cycle that ended normally and in "failed"
\* after a cycle that ended in the except clause; a cycle that finds nothing
\* goes back to sleep.
PollFetch(t) ==
    LET batch == SortById(PendingPix(transactions, now, JanelaHoras)) IN
    /\ t \in Pollers
    /\ th[t].pc \in {"idle", "failed"}
    /\ batch # <<>> \/ th[t].pc = "failed"
    /\ th' = [th EXCEPT ![t] =
         IF batch = <<>> THEN IdleThread
         ELSE [IdleThread EXCEPT !.pc = "query", !.batch = batch]]
    /\ UNCHANGED <<users, transactions, nextId, gateway, now, rowLock, faults,
                   credited, okDelta, calls>>

\* (mutant) no response of the gateway counts as an approval
NeverApproved(resp) == FALSE

\* (mutant) any response of the gateway counts as an approval
AnyResponse(resp) == resp # "none"

\* if payment_details and payment_details.get("status") == "approved"
Approved(resp) == resp = "approved"

\* payment_details = pay.get_payment_details(trans['mercado_pago_id'])
PollQuery(t) ==
    /\ t \in Pollers
    /\ th[t].pc = "query"
    /\ \E resp \in GatewayAnswers(Head(th[t].batch).mercado_pago_id) :
         th' = [th EXCEPT ![t] =
           IF Approved(resp)
           THEN Invoke(th[t], Head(th[t].batch), resp)
           ELSE [IdleThread EXCEPT
                   !.pc = IF Tail(th[t].batch) = <<>> THEN "idle" ELSE "query",
                   !.batch = Tail(th[t].batch)]]
    /\ UNCHANGED <<users, transactions, nextId, gateway, now, rowLock, faults,
                   credited, okDelta, calls>>

\* (mutant) no except clause around the cycle: the exception ends the loop
LoopEnds(rec) == [IdleThread EXCEPT !.pc = "crashed"]

\* except Exception as e: logger.error(...), then time.sleep and the next
\* turn of while True.  What is left of the batch is dropped.
AfterException(rec) == [IdleThread EXCEPT !.pc = "failed"]

\* pay.get_payment_details raises inside the for loop: the try block encloses
\* the whole loop, so control leaves the loop for the except clause.
PollRaise(t) ==
    /\ t \in Pollers
    /\ th[t].pc = "query"
    /\ faults < MaxFaults
    /\ faults' = faults + 1
    /\ th' = [th EXCEPT ![t] = AfterException(th[t])]
    /\ UNCHANGED <<users, transactions, nextId, gateway, now, rowLock, credited,
                   okDelta, calls>>

\* database.get_pending_pix_transactions raises (get_db_connection re-raises
\* psycopg2.OperationalError when the server cannot be reached).
PollFetchRaise(t) ==
    /\ t \in Pollers
    /\ th[t].pc \in {"idle", "failed"}
    /\ faults < MaxFaults
    /\ faults' = faults + 1
    /\ th' = [th EXCEPT ![t] = AfterException(th[t])]
    /\ UNCHANGED <<users, transactions, nextId, gateway, now, rowLock, credited,
                   okDelta, calls>>

\* ------------------------------------------- handle_verificar_command
\* transaction = database.get_transaction_by_id_and_user(transaction_id, user_id)
VerificarRead(t, u, id) ==
    LET found == TransactionByIdAndUser(transactions, id, u) IN
    /\ t \in Handlers
    /\ th[t].pc = "idle"
    /\ found # {}
    /\ StatusIsPending(CHOOSE r \in found : TRUE)
    /\ th' = [th EXCEPT ![t] = [IdleThread EXCEPT !.pc = "ver_query", !.user = u,
                                  !.transaction = CHOOSE r \in found : TRUE]]
    /\ UNCHANGED <<users, transactions, nextId, gateway, now, rowLock, faults,
                   credited, okDelta, calls>>

\* if not transaction: bot.reply_to(... "nao encontrada ou nao pertence a voce"); return
VerificarRefused(t, u, id) ==
    /\ t \in Handlers
    /\ th[t].pc = "idle"
    /\ TransactionByIdAndUser(transactions, id, u) = {}
    /\ th' = [th EXCEPT ![t] = [IdleThread EXCEPT !.result = "nao encontrada",
                                  !.user = u, !.wid = id]]
    /\ UNCHANGED <<users, transactions, nextId, gateway, now, rowLock, faults,
                   credited, okDelta, calls>>

\* payment_details = pay.get_payment_details(transaction['mercado_pago_id'])
VerificarQuery(t) ==
    /\ t \in Handlers
    /\ th[t].pc = "ver_query"
    /\ \E resp \in GatewayAnswers(th[t].transaction.mercado_pago_id) :
         th' = [th EXCEPT ![t] =
           IF Approved(resp)
           THEN Invoke(th[t], th[t].transaction, resp)
           ELSE IdleThread]
    /\ UNCHANGED <<users, transactions, nextId, gateway, now, rowLock, faults,
                   credited, okDelta, calls>>

\* ----------------------------------------------------------- handle_saque
\* (mutant) the quotient is cut to cents instead of rounded
ValorAReceberTruncado(valor_total_debito) ==
    ((valor_total_debito - TAXA_SAQUE_FIXA) * 100) \div (100 + TAXA_SAQUE_PERCENTUAL)

\* valor_a_receber = round((valor_total_debito - TAXA_SAQUE_FIXA) / (1 + TAXA_SAQUE_PERCENTUAL), 2)
\* (no quotient of this shape lies half way between two cents)
ValorAReceber(valor_total_debito) ==
    ((valor_total_debito - TAXA_SAQUE_FIXA) * 200 + (100 + TAXA_SAQUE_PERCENTUAL))
        \div (2 * (100 + TAXA_SAQUE_PERCENTUAL))

\* taxa_final = round(valor_total_debito - valor_a_receber, 2)
TaxaFinal(valor_total_debito) == valor_total_debito - ValorAReceber(valor_total_debito)

\* get_balance: the committed balance, 0.00 for a user without a row
GetBalance(tbl, u) == IF tbl[u].exists THEN tbl[u].balance ELSE 0

\* (mutant) no check is made
AcceptsAnything(tbl, u, valor_total_debito) == TRUE

\* The three checks made before the connection is opened.
SaqueAccepted(tbl, u, valor_total_debito) ==
    /\ ~(valor_total_debito <= TAXA_SAQUE_FIXA)
    /\ ~(ValorAReceber(valor_total_debito) < LIMITE_MINIMO_SAQUE)
    /\ ~(GetBalance(tbl, u) < valor_total_debito)

\* create_user_if_not_exists, the checks and get_balance; an accepted request
\* opens its connection.
SaquePedido(t, u, valor) ==
    /\ t \in Handlers
    /\ th[t].pc = "idle"
    /\ calls' = [calls EXCEPT !.saque = @ + 1]
    /\ users' = CreateUserIfNotExists(u)
    /\ th' = [th EXCEPT ![t] =
         IF SaqueAccepted(users', u, valor)
         THEN [IdleThread EXCEPT !.pc = "saq_debit", !.user = u, !.amount = valor,
                                 !.net = ValorAReceber(valor),
                                 !.fee = TaxaFinal(valor),
                                 !.saldo_atual = GetBalance(users', u)]
         ELSE IdleThread]
    /\ UNCHANGED <<transactions, nextId, gateway, now, rowLock, faults, credited,
                   okDelta>>

SaqueStart(t, u, valor) == calls.saque < MaxSaques /\ SaquePedido(t, u, valor)

\* if not database.update_balance(user.id, -valor_total_debito, conn_ext=conn): raise
\* The except branch rolls back and the finally branch closes the connection.
SaqueDebit(t) ==
    LET u == th[t].user IN
    /\ th[t].pc = "saq_debit"
    /\ CanLockForUpdate(t, u)
    /\ IF WouldGoNegative(u, 0 - th[t].amount * 100)
       THEN /\ th' = [th EXCEPT ![t] = IdleThread]
            /\ rowLock' = ReleaseLocks(t)
       ELSE /\ th' = [th EXCEPT ![t].pc = "saq_record",
                        ![t].conn = UpdateBalanceConn(@, u, 0 - th[t].amount * 100)]
            /\ rowLock' = IF users[u].exists
                          THEN [rowLock EXCEPT ![u] = [owner |-> t, mode |-> "update"]]
                          ELSE rowLock
    /\ UNCHANGED <<users, transactions, nextId, gateway, now, faults, credited,
                   okDelta, calls>>

\* transaction_id = database.record_transaction(conn_ext=conn, type="WITHDRAWAL", ...)
SaqueRecord(t) ==
    LET u == th[t].user
        row == Row(nextId, u, "WITHDRAWAL", NumericRound(th[t].net * 100),
                   STATUS_EM_ANALISE, 0, NoNote, now)
    IN
    /\ th[t].pc = "saq_record"
    /\ IF th[t].conn.aborted
       THEN /\ th' = [th EXCEPT ![t].pc = "saq_fee", ![t].wid = 0]
            /\ UNCHANGED nextId
       ELSE /\ nextId' = nextId + 1
            /\ th' = [th EXCEPT ![t].pc = "saq_fee",
                        ![t].conn = RecordTransactionConn(@, row),
                        ![t].wid = nextId]
    /\ transactions' = VisibleAfterInsert(row)
    /\ UNCHANGED <<users, gateway, now, rowLock, faults, credited, okDelta, calls>>

SaqueNote(id) == [kind |-> "Taxa referente ao saque ID", id |-> id]

\* database.record_transaction(conn_ext=conn, type="FEE", amount=taxa_final, ...)
SaqueFee(t) ==
    LET u == th[t].user
        row == Row(nextId, u, "FEE", NumericRound(th[t].fee * 100),
                   STATUS_CONCLUIDO, 0, SaqueNote(th[t].wid), now)
    IN
    /\ th[t].pc = "saq_fee"
    /\ IF th[t].conn.aborted
       THEN /\ th' = [th EXCEPT ![t].pc = "saq_commit"]
            /\ UNCHANGED nextId
       ELSE /\ nextId' = nextId + 1
            /\ th' = [th EXCEPT ![t].pc = "saq_commit",
                        ![t].conn = RecordTransactionConn(@, row)]
    /\ transactions' = VisibleAfterInsert(row)
    /\ UNCHANGED <<users, gateway, now, rowLock, faults, credited, okDelta, calls>>

\* conn.commit()
SaqueCommit(t) ==
    /\ th[t].pc = "saq_commit"
    /\ users' = CommitUsers(th[t].conn)
    /\ transactions' = CommitTransactions(th[t].conn)
    /\ rowLock' = ReleaseLocks(t)
    /\ th' = [th EXCEPT ![t].pc = "saq_notify"]
    /\ UNCHANGED <<nextId, gateway, now, faults, credited, okDelta, calls>>

\* adm.notify_admin_of_withdrawal_request(...); bot.reply_to(...)
SaqueNotify(t) ==
    /\ th[t].pc = "saq_notify"
    /\ th' = [th EXCEPT ![t] = IdleThread]
    /\ UNCHANGED <<users, transactions, nextId, gateway, now, rowLock, faults,
                   credited, okDelta, calls>>

\* A server error in one of the three statements: update_balance returns
\* False and handle_saque raises and rolls back; record_transaction returns
\* None and handle_saque goes on with its transaction aborted.
SaqueError(t) ==
    /\ th[t].pc \in {"saq_debit", "saq_record", "saq_fee"}
    /\ ~th[t].conn.aborted
    /\ faults < MaxFaults
    /\ faults' = faults + 1
    /\ th' = [th EXCEPT ![t] =
         CASE th[t].pc = "saq_debit" -> IdleThread
           [] th[t].pc = "saq_record" ->
                [th[t] EXCEPT !.pc = "saq_fee", !.conn = Aborted(@), !.wid = 0]
           [] OTHER -> [th[t] EXCEPT !.pc = "saq_commit", !.conn = Aborted(@)]]
    /\ UNCHANGED <<users, transactions, nextId, gateway, now, rowLock, credited,
                   okDelta, calls>>

Saque(t) ==
    \/ SaqueDebit(t)
    \/ SaqueRecord(t)
    \/ SaqueFee(t)
    \/ SaqueCommit(t)
    \/ SaqueNotify(t)

\* ------------------------------------------------------- admin_set_balance
\* UPDATE users SET balance = %s WHERE telegram_id = %s; no row: return False
AdminUpdate(t, u, new_balance) ==
    /\ t \in Handlers
    /\ th[t].pc = "idle"
    /\ calls.admin < MaxAdmin
    /\ calls' = [calls EXCEPT !.admin = @ + 1]
    /\ CanLockForUpdate(t, u)
    /\ IF users[u].exists
       THEN /\ rowLock' = [rowLock EXCEPT ![u] = [owner |-> t, mode |-> "nokey"]]
            /\ th' = [th EXCEPT ![t] =
                 [IdleThread EXCEPT !.pc = "adm_record", !.user = u,
                     !.amount = new_balance,
                     !.conn = [NoConn EXCEPT !.wbal =
                                 <<[user |-> u, balance |-> new_balance]>>]]]
       ELSE UNCHANGED <<rowLock, th>>
    /\ UNCHANGED <<users, transactions, nextId, gateway, now, faults, credited,
                   okDelta>>

AjusteNote(new_balance) == [kind |-> "Saldo definido por um admin", id |-> new_balance]

\* record_transaction(type='AJUSTE_MANUAL', amount=new_balance, status='CONCLUIDO', ...)
\* without conn_ext: the row is inserted and committed on a connection of its own.
AdminRecord(t) ==
    /\ th[t].pc = "adm_record"
    /\ CanKeyShare(t, th[t].user)
    /\ nextId' = nextId + 1
    /\ transactions' = transactions \cup
         {Row(nextId, th[t].user, "AJUSTE_MANUAL", th[t].amount, "CONCLUIDO", 0,
              AjusteNote(th[t].amount), now)}
    /\ th' = [th EXCEPT ![t].pc = "adm_commit"]
    /\ UNCHANGED <<users, gateway, now, rowLock, faults, credited, okDelta, calls>>

\* conn.commit(); return True
AdminCommit(t) ==
    /\ th[t].pc = "adm_commit"
    /\ users' = CommitUsers(th[t].conn)
    /\ rowLock' = ReleaseLocks(t)
    /\ th' = [th EXCEPT ![t] = IdleThread]
    /\ UNCHANGED <<transactions, nextId, gateway, now, faults, credited, okDelta, calls>>

Admin(t) ==
    \/ AdminRecord(t)
    \/ AdminCommit(t)

\* ------------------- update_balance(telegram_id, amount_change) on its own
\* SELECT balance FROM users WHERE telegram_id = %s FOR UPDATE; a result that
\* would be negative returns False, and closing the connection ends the lock.
UpdateBalanceSelect(t, u, amount_change) ==
    /\ t \in Handlers
    /\ th[t].pc = "idle"
    /\ calls.direct < MaxCalls
    /\ calls' = [calls EXCEPT !.direct = @ + 1]
    /\ CanLockForUpdate(t, u)
    /\ IF WouldGoNegative(u, amount_change * 100)
       THEN /\ th' = [th EXCEPT ![t] =
                 [IdleThread EXCEPT !.result = "False", !.user = u,
                                    !.amount = amount_change]]
            /\ UNCHANGED rowLock
       ELSE /\ th' = [th EXCEPT ![t] =
                 [IdleThread EXCEPT !.pc = "ub_update", !.user = u,
                     !.amount = amount_change,
                     !.conn = UpdateBalanceConn(NoConn, u, amount_change * 100)]]
            /\ rowLock' = IF users[u].exists
                          THEN [rowLock EXCEPT ![u] = [owner |-> t, mode |-> "update"]]
                          ELSE rowLock
    /\ UNCHANGED <<users, transactions, nextId, gateway, now, faults, credited,
                   okDelta>>

\* UPDATE users SET balance = %s ...; conn.commit(); return True
UpdateBalanceCommit(t) ==
    /\ th[t].pc = "ub_update"
    /\ users' = CommitUsers(th[t].conn)
    /\ rowLock' = ReleaseLocks(t)
    /\ okDelta' = [okDelta EXCEPT ![th[t].user] = @ + th[t].amount]
    /\ th' = [th EXCEPT ![t] = [IdleThread EXCEPT !.result = "True"]]
    /\ UNCHANGED <<transactions, nextId, gateway, now, faults, credited, calls>>

\* except psycopg2.Error: conn.rollback(); return False
UpdateBalanceError(t) ==
    /\ th[t].pc = "ub_update"
    /\ faults < MaxFaults
    /\ faults' = faults + 1
    /\ rowLock' = ReleaseLocks(t)
    /\ th' = [th EXCEPT ![t] = [IdleThread EXCEPT !.result = "False"]]
    /\ UNCHANGED <<users, transactions, nextId, gateway, now, credited, okDelta, calls>>

\* ------------------------------------------------------ calculate_profits
\* SUM(amount) over a set of rows
RECURSIVE SumAmount(_)
SumAmount(rows) ==
    IF rows = {} THEN 0
    ELSE LET r == CHOOSE x \in rows : TRUE IN r.amount + SumAmount(rows \ {r})

\* (mutant) the subquery does not look at the status of the withdrawal
ProfitsAnyWithdrawal(rows) ==
    SumAmount({f \in rows :
        /\ f.type = "FEE"
        /\ f.status = STATUS_CONCLUIDO
        /\ \/ f.admin_notes.kind = FeeNote(0).kind
           \/ /\ f.admin_notes.kind = SaqueNote(0).kind
              /\ \E w \in rows : w.type = "WITHDRAWAL" /\ w.id = f.admin_notes.id})

\* SELECT COALESCE(SUM(T1.amount), 0.00) FROM transactions T1
\* WHERE T1.type = 'FEE' AND T1.status = %s AND (
\*     T1.admin_notes LIKE 'Taxa de depósito%%'
\*  OR (T1.admin_notes LIKE 'Taxa referente ao saque ID %%' AND EXISTS (
\*        SELECT 1 FROM transactions T2 WHERE T2.type = 'WITHDRAWAL'
\*          AND T2.status = %s AND T2.id = <the number that ends the note>)))
CalculateProfits(rows) ==
    SumAmount({f \in rows :
        /\ f.type = "FEE"
        /\ f.status = STATUS_CONCLUIDO
        /\ \/ f.admin_notes.kind = FeeNote(0).kind
           \/ /\ f.admin_notes.kind = SaqueNote(0).kind
              /\ \E w \in rows : /\ w.type = "WITHDRAWAL"
                                  /\ w.status = STATUS_CONCLUIDO
                                  /\ w.id = f.admin_notes.id})

\* The admin panel asks for the profit: the sum over the committed rows.
ProfitReport(t) ==
    /\ t \in Handlers
    /\ th[t].pc = "idle"
    /\ th' = [th EXCEPT ![t] =
         [IdleThread EXCEPT !.result = "lucro",
                            !.amount = CalculateProfits(transactions)]]
    /\ UNCHANGED <<users, transactions, nextId, gateway, now, rowLock, faults,
                   credited, okDelta, calls>>

\* UPDATE transactions SET status = %s, updated_at = %s WHERE id = %s: the
\* WHERE clause names the id alone.
RowsWithStatus(rows, id, new_status) ==
    {IF r.id = id THEN [r EXCEPT !.status = new_status] ELSE r : r \in rows}

\* update_transaction_status(transaction_id, new_status) on a connection of
\* its own: the UPDATE, then commit.
UpdateTransactionStatus(id, new_status) ==
    /\ \E r \in transactions : r.id = id /\ r.status # new_status
    /\ transactions' = RowsWithStatus(transactions, id, new_status)
    /\ UNCHANGED <<users, nextId, gateway, now, rowLock, th, faults, credited,
                   okDelta, calls>>

\* The same call made from the admin panel with any id and any status.
StatusCall(id, new_status) ==
    /\ calls.admin < MaxAdmin
    /\ calls' = [calls EXCEPT !.admin = @ + 1]
    /\ \E r \in transactions : r.id = id /\ r.status # new_status
    /\ transactions' = RowsWithStatus(transactions, id, new_status)
    /\ UNCHANGED <<users, nextId, gateway, now, rowLock, th, faults, credited,
                   okDelta>>

\* The admin settles a withdrawal that is under review.
ReviewWithdrawal(id, new_status) ==
    /\ \E w \in transactions :
          w.id = id /\ w.type = "WITHDRAWAL" /\ w.status = STATUS_EM_ANALISE
    /\ UpdateTransactionStatus(id, new_status)

\* ------------------------------------------------ the store is unreachable
StoreOps ==
    {"update_balance", "record_transaction", "update_transaction_status",
     "get_balance", "get_pending_pix_transactions", "calculate_profits"}

\* What each operation returns from its except psycopg2.Error clause.
FailureValue(op) ==
    CASE op = "update_balance" -> "False"
      [] op = "record_transaction" -> "None"
      [] op = "update_transaction_status" -> "False"
      [] op = "get_balance" -> "0.00"
      [] op = "get_pending_pix_transactions" -> "[]"
      [] OTHER -> "0.00"

\* Whether the call of get_db_connection stands inside the try block whose
\* except clause returns the failure value: in update_balance,
\* record_transaction and update_transaction_status it is the statement
\* before the try; in the three readers it is the with statement that
\* encloses the try.
ConnectsInsideTry(op) == FALSE

\* get_db_connection logs psycopg2.OperationalError and raises it again; the
\* operation returns its failure value only if its except clause sees it.
OutcomeWhenUnreachable(op) ==
    IF ConnectsInsideTry(op) THEN FailureValue(op) ELSE "raised"

\* The handler t calls the operation op, without conn_ext, while the server
\* cannot be reached.
CallWhileUnreachable(t, op) ==
    /\ t \in Handlers
    /\ th[t].pc = "idle"
    /\ faults < MaxFaults
    /\ faults' = faults + 1
    /\ th' = [th EXCEPT ![t] =
         [IdleThread EXCEPT !.result = OutcomeWhenUnreachable(op)]]
    /\ UNCHANGED <<users, transactions, nextId, gateway, now, rowLock, credited,
                   okDelta, calls>>

\* ---------------------------------------------------------- specifications
\* Deposits: /start, /pix, the gateway, the poller and one /verificar handler.
NextDeposit ==
    \/ \E u \in UserIds : HandleStart(u)
    \/ \E u \in UserIds, valor \in DepositValues : HandlePixDeposit(u, valor)
    \/ \E ref \in DOMAIN gateway, s \in {"approved", "rejected"} : GatewaySettle(ref, s)
    \/ \E t \in Pollers : PollFetch(t)
    \/ \E t \in Pollers : PollQuery(t)
    \/ \E u \in UserIds, id \in 1..(nextId - 1) : VerificarRead("h1", u, id)
    \/ VerificarQuery("h1")
    \/ \E t \in Threads : Processar(t)

SpecDeposit == Init /\ [][NextDeposit]_vars

\* Deposits with server errors and an admin who sets balances.
NextAdmin ==
    \/ NextDeposit
    \/ \E t \in Threads : ProcessarError(t)
    \/ \E u \in UserIds, b \in AdminValues : AdminUpdate("h2", u, b)
    \/ Admin("h2")

SpecAdmin == Init /\ [][NextAdmin]_vars

\* The store on its own: direct update_balance calls and admin_set_balance.
NextStore ==
    \/ \E u \in UserIds : HandleStart(u)
    \/ \E t \in Handlers, u \in UserIds, d \in DeltaValues : UpdateBalanceSelect(t, u, d)
    \/ \E t \in Handlers : UpdateBalanceCommit(t)
    \/ \E t \in Handlers : UpdateBalanceError(t)
    \/ \E t \in Handlers, u \in UserIds, b \in AdminValues : AdminUpdate(t, u, b)
    \/ \E t \in Handlers : Admin(t)

SpecStore == Init /\ [][NextStore]_vars

\* Concurrent direct update_balance calls on users that exist.
NextBalance ==
    \/ \E u \in UserIds : HandleStart(u)
    \/ \E t \in Handlers, u \in UserIds, d \in DeltaValues :
         users[u].exists /\ UpdateBalanceSelect(t, u, d)
    \/ \E t \in Handlers : UpdateBalanceCommit(t)
    \/ \E t \in Handlers : UpdateBalanceError(t)

SpecBalance == Init /\ [][NextBalance]_vars

\* Withdrawals, funded by deposits the poller confirms, with server errors.
NextSaque ==
    \/ \E u \in UserIds : HandleStart(u)
    \/ \E u \in UserIds, valor \in FundingValues : HandlePixDeposit(u, valor)
    \/ \E ref \in DOMAIN gateway : GatewaySettle(ref, "approved")
    \/ \E t \in Pollers : PollFetch(t)
    \/ \E t \in Pollers : PollQuery(t)
    \/ \E t \in Pollers : Processar(t)
    \/ \E t \in Handlers, u \in UserIds, valor \in SaqueValues : SaqueStart(t, u, valor)
    \/ \E t \in Handlers : Saque(t)
    \/ \E t \in Handlers : SaqueError(t)

SpecSaque == Init /\ [][NextSaque]_vars

\* Deposits and withdrawals together, without errors and without an admin.
NextLedger ==
    \/ NextDeposit
    \/ \E u \in UserIds, valor \in SaqueValues : SaqueStart("h2", u, valor)
    \/ Saque("h2")

SpecLedger == Init /\ [][NextLedger]_vars

\* The poller alone over batches of several deposits, with exceptions raised
\* inside the loop over the batch.
NextPoller ==
    \/ \E u \in UserIds : HandleStart(u)
    \/ \E u \in UserIds, valor \in FundingValues :
          calls.pix < MaxBatch /\ RecordDeposit(u, valor)
    \/ \E ref \in DOMAIN gateway : GatewaySettle(ref, "approved")
    \/ \E t \in Pollers : PollFetch(t)
    \/ \E t \in Pollers : PollQuery(t)
    \/ \E t \in Pollers : Processar(t)
    \/ \E t \in Pollers : PollRaise(t)

SpecPoller == Init /\ [][NextPoller]_vars

\* The poller alone while the clock advances past the window of the deposits.
NextWindow ==
    \/ \E u \in Depositors : HandleStart(u)
    \/ \E u \in Depositors, valor \in FundingValues :
          calls.pix < MaxBatch /\ RecordDeposit(u, valor)
    \/ \E ref \in DOMAIN gateway : GatewaySettle(ref, "approved")
    \/ Tick
    \/ \E t \in Pollers : PollFetch(t)
    \/ \E t \in Pollers : PollQuery(t)
    \/ \E t \in Pollers : Processar(t)

SpecWindow == Init /\ [][NextWindow]_vars

\* The poller over several cycles on the deposits of /pix, all within the
\* window, with exceptions in the cycle and with server errors in the confirmation.
NextCycles ==
    \/ \E u \in UserIds : HandleStart(u)
    \/ \E u \in UserIds, valor \in FundingValues : HandlePixDeposit(u, valor)
    \/ \E ref \in DOMAIN gateway : GatewaySettle(ref, "approved")
    \/ \E t \in Pollers : PollFetch(t)
    \/ \E t \in Pollers : PollQuery(t)
    \/ \E t \in Pollers : Processar(t)
    \/ \E t \in Pollers : ProcessarError(t)
    \/ \E t \in Pollers : PollRaise(t)
    \/ \E t \in Pollers : PollFetchRaise(t)
    \/ \E t \in Pollers : ProcessarNotifyFails(t)

SpecCycles == Init /\ [][NextCycles]_vars

\* while True: ... time.sleep(30): the poller thread is never blocked for
\* ever, so each of its steps that stays possible is taken.
PollerRuns ==
    \E t \in Pollers :
        PollFetch(t) \/ PollQuery(t) \/ Processar(t) \/ ProcessarNotifyFails(t)

SpecPollerFair == SpecCycles /\ WF_vars(PollerRuns)

\* The gateway is reachable: a payment it holds approved is not reported as
\* missing for ever.
PollGetsApproval ==
    \E t \in Pollers : PollQuery(t) /\ th'[t].resp = "approved"

SpecPollerAnswered == SpecPollerFair /\ SF_vars(PollGetsApproval)

\* Deposits, withdrawals, the admin's review of withdrawals and the profit
\* report.
NextProfit ==
    \/ \E u \in UserIds : HandleStart(u)
    \/ \E u \in UserIds, valor \in FundingValues : HandlePixDeposit(u, valor)
    \/ \E ref \in DOMAIN gateway : GatewaySettle(ref, "approved")
    \/ \E t \in Pollers : PollFetch(t)
    \/ \E t \in Pollers : PollQuery(t)
    \/ \E t \in Pollers : Processar(t)
    \/ \E u \in UserIds, valor \in SaqueValues : SaqueStart("h1", u, valor)
    \/ Saque("h1")
    \/ \E id \in 1..(nextId - 1), status \in {STATUS_CONCLUIDO, STATUS_RECUSADO} :
          ReviewWithdrawal(id, status)
    \/ ProfitReport("h2")

SpecProfit == Init /\ [][NextProfit]_vars

\* Withdrawal requests of every kind - not above the fixed fee, below the
\* minimum, above the balance, and within the balance - by users whose
\* deposit was confirmed or not.
NextPedidos ==
    \/ \E u \in UserIds : HandleStart(u)
    \/ \E u \in UserIds, valor \in FundingValues : HandlePixDeposit(u, valor)
    \/ \E ref \in DOMAIN gateway : GatewaySettle(ref, "approved")
    \/ \E t \in Pollers : PollFetch(t)
    \/ \E t \in Pollers : PollQuery(t)
    \/ \E t \in Pollers : Processar(t)
    \/ \E u \in UserIds, valor \in SaquePedidos : SaqueStart("h1", u, valor)
    \/ Saque("h1")

SpecPedidos == Init /\ [][NextPedidos]_vars

\* the gross debits two requests of one user ask for: together within the
\* balance of a confirmed deposit of 100.00, or together above it
PedidosSimultaneos == {2000, 5000}

\* One user, funded by a first deposit, sends /sacar requests that two
\* handler threads serve at the same time.
NextConcurrent ==
    \/ \E u \in Depositors : HandleStart(u)
    \/ \E u \in Depositors, valor \in FundingValues :
         transactions = {} /\ HandlePixDeposit(u, valor)
    \/ \E ref \in DOMAIN gateway : GatewaySettle(ref, "approved")
    \/ \E t \in Pollers : PollFetch(t)
    \/ \E t \in Pollers : PollQuery(t)
    \/ \E t \in Pollers : Processar(t)
    \/ \E t \in Handlers, u \in Depositors, valor \in PedidosSimultaneos :
         calls.saque < MaxPedidos /\ SaquePedido(t, u, valor)
    \/ \E t \in Handlers : Saque(t)

SpecConcurrent == Init /\ [][NextConcurrent]_vars

\* the requests made so far
Requests == calls.pix + calls.saque + calls.admin

\* the gross debit of the withdrawals that wait for the admin
PedidosEmAnalise == {2000}

\* Every operation of the core on the account of one user: deposits the
\* poller or /verificar confirms, withdrawals, and an admin who sets the
\* balance.
NextCore ==
    \/ \E u \in Depositors : HandleStart(u)
    \/ \E u \in Depositors, valor \in FundingValues :
         Requests < MaxOps /\ HandlePixDeposit(u, valor)
    \/ \E ref \in DOMAIN gateway : GatewaySettle(ref, "approved")
    \/ \E t \in Pollers : PollFetch(t)
    \/ \E t \in Pollers : PollQuery(t)
    \/ \E u \in Depositors, id \in 1..(nextId - 1) : VerificarRead("h1", u, id)
    \/ VerificarQuery("h1")
    \/ \E t \in Threads : Processar(t)
    \/ \E u \in Depositors, valor \in PedidosEmAnalise :
         /\ Requests < MaxOps
         /\ calls.saque < MaxPedidos
         /\ SaquePedido("h1", u, valor)
    \/ Saque("h1")
    \/ \E u \in Depositors, b \in AdminValues :
         Requests < MaxOps /\ b > 0 /\ AdminUpdate("h1", u, b)
    \/ Admin("h1")

SpecCore == Init /\ [][NextCore]_vars

\* Deposits of two users, with /verificar requests that name any transaction.
NextVerificar ==
    \/ NextDeposit
    \/ \E u \in UserIds, d \in {r \in transactions : r.type = "DEPOSIT"} :
         VerificarRefused("h1", u, d.id)

SpecVerificar == Init /\ [][NextVerificar]_vars

\* One user who starts the bot again and again, under one name or another,
\* between a deposit the poller confirms and withdrawals.
NextUsers ==
    \/ \E u \in Depositors : HandleStart(u)
    \/ \E u \in Depositors, first_name \in FirstNames : HandleStartAgain("h1", u, first_name)
    \/ \E u \in Depositors, valor \in FundingValues : HandlePixDeposit(u, valor)
    \/ \E ref \in DOMAIN gateway : GatewaySettle(ref, "approved")
    \/ \E t \in Pollers : PollFetch(t)
    \/ \E t \in Pollers : PollQuery(t)
    \/ \E t \in Pollers : Processar(t)
    \/ \E u \in Depositors, valor \in SaqueValues : SaqueStart("h2", u, valor)
    \/ Saque("h2")

SpecUsers == Init /\ [][NextUsers]_vars

AllStatuses ==
    {STATUS_DEPOSITO_PENDENTE, STATUS_DEPOSITO_PAGO, STATUS_EM_ANALISE,
     STATUS_CONCLUIDO, STATUS_RECUSADO}

\* Deposits and withdrawals beside calls of update_transaction_status with any
\* id and any status.
NextStatus ==
    \/ \E u \in UserIds : HandleStart(u)
    \/ \E u \in UserIds, valor \in FundingValues : HandlePixDeposit(u, valor)
    \/ \E ref \in DOMAIN gateway : GatewaySettle(ref, "approved")
    \/ \E t \in Pollers : PollFetch(t)
    \/ \E t \in Pollers : PollQuery(t)
    \/ \E t \in Pollers : Processar(t)
    \/ \E u \in UserIds, valor \in SaqueValues : SaqueStart("h1", u, valor)
    \/ Saque("h1")
    \/ \E id \in 1..(nextId - 1), status \in AllStatuses : StatusCall(id, status)

SpecStatus == Init /\ [][NextStatus]_vars

\* Calls of update_balance beside calls made while the store is unreachable.
NextOutage ==
    \/ NextBalance
    \/ \E t \in Handlers, op \in StoreOps : CallWhileUnreachable(t, op)

SpecOutage == Init /\ [][NextOutage]_vars

\* The poller as time passes, never blocked for ever and with a gateway that
\* is reachable; no call fails.
PollerSteps == \E t \in Pollers : PollFetch(t) \/ PollQuery(t) \/ Processar(t)

SpecReconcile == SpecWindow /\ WF_vars(PollerSteps) /\ SF_vars(PollGetsApproval)

\* ------------------------------------------------------------- properties
Deposits == {r \in transactions : r.type = "DEPOSIT"}

\* FEE rows whose note names the deposit `id`
DepositFeeRows(id) ==
    {r \in transactions : r.type = "FEE" /\ r.admin_notes = FeeNote(id)}

\* credits of the deposit `id` committed so far
Credits(id) == Cardinality({i \in DOMAIN credited : credited[i] = id})

\* the thread t takes its COMMIT step of a deposit confirmation
ConfirmCommits(t) == th[t].pc = "commit" /\ th'[t].pc = "notify"

\* C1: a confirmation of a deposit that is invoked after an earlier
\* confirmation of the same deposit has committed is a no-op: it changes no
\* balance, inserts no row and returns False.
C1_SecondCallIsNoOp ==
    /\ \A t \in Threads :
          th[t].stale => /\ th[t].pc = "returned"
                         /\ th[t].result = "False"
                         /\ th[t].conn = NoConn
    /\ \A d \in Deposits :
          d.status = STATUS_DEPOSITO_PAGO =>
              Credits(d.id) = 1 /\ Cardinality(DepositFeeRows(d.id)) = 1

\* C2: whatever the interleaving of the confirmation paths, a deposit is
\* credited at most once and at most one FEE row is committed for it.
C2_AtMostOneCredit ==
    \A d \in Deposits :
        /\ Credits(d.id) <= 1
        /\ Cardinality(DepositFeeRows(d.id)) <= 1

\* C3: in every committed state every user's balance is >= 0.
C3_BalanceNonNegative ==
    \A u \in UserIds : users[u].exists => users[u].balance >= 0

\* C4: with concurrent update_balance calls on one user, the committed balance
\* is the initial balance (0.00) plus the deltas of the calls that returned
\* True, and it is never negative.
C4_NoLostUpdate ==
    \A u \in UserIds :
        users[u].exists => /\ users[u].balance = okDelta[u]
                           /\ users[u].balance >= 0

C4_Witness ==
    \E u \in UserIds, t \in Handlers :
        /\ users[u].balance = 8000
        /\ okDelta[u] = 8000
        /\ th[t].result = "True"

\* the thread t makes a direct update_balance call in this step
DirectCall(t) ==
    /\ th[t].pc = "idle"
    /\ calls'.direct = calls.direct + 1
    /\ th'[t] # th[t]

\* C5: update_balance(user, delta) with current + delta < 0 returns False and
\* leaves the stored balance as it was.
C5_NegativeRejected ==
    [][\A t \in Handlers :
          (DirectCall(t) /\ GetBalance(users, th'[t].user) + th'[t].amount < 0)
              => /\ th'[t].pc = "idle"
                 /\ th'[t].result = "False"
                 /\ users' = users
                 /\ rowLock' = rowLock]_vars

C5_Witness ==
    \E t \in Handlers :
        /\ th[t].pc = "idle"
        /\ th[t].result = "False"
        /\ th[t].amount = -6000
        /\ users[th[t].user].exists
        /\ users[th[t].user].balance = 4000

\* C6: when one of the three steps of a deposit confirmation failed (by an
\* exception or by its return value), the COMMIT step commits nothing.
C6_AllOrNothing ==
    [][\A t \in Threads :
          (/\ ConfirmCommits(t)
           /\ \/ th[t].rets.credit = "False"
              \/ th[t].rets.fee = 0
              \/ th[t].rets.status = "False")
              => users' = users /\ transactions' = transactions]_vars

SaquePcs == {"saq_debit", "saq_record", "saq_fee", "saq_commit", "saq_notify"}

\* the two rows a committed withdrawal of thread t adds
SaqueRows(t, w, f) ==
    /\ w.type = "WITHDRAWAL" /\ w.status = STATUS_EM_ANALISE
    /\ w.user_telegram_id = th[t].user /\ w.amount = th[t].net
    /\ f.type = "FEE" /\ f.status = STATUS_CONCLUIDO
    /\ f.user_telegram_id = th[t].user /\ f.amount = th[t].fee
    /\ f.admin_notes = SaqueNote(w.id)

\* C7: a step of a withdrawal either leaves balances and ledger as they were,
\* or it is the COMMIT that applies the gross debit together with the
\* WITHDRAWAL row (UNDER_REVIEW) and the FEE row (COMPLETED) naming it.
C7_SaqueAllOrNothing ==
    [][\A t \in Handlers :
          (th[t].pc \in SaquePcs /\ th'[t] # th[t])
              => \/ users' = users /\ transactions' = transactions
                 \/ /\ th[t].pc = "saq_commit"
                    /\ users' = [users EXCEPT ![th[t].user].balance = @ - th[t].amount]
                    /\ \E w, f \in transactions' \ transactions :
                          /\ transactions' = transactions \cup {w, f}
                          /\ SaqueRows(t, w, f)]_vars

\* a server error hit an INSERT after the debit was written, and the COMMIT
\* step has been taken
C7_Witness ==
    \E t \in Handlers :
        /\ th[t].pc = "saq_notify"
        /\ th[t].conn.aborted
        /\ th[t].conn.wbal # <<>>
        /\ users[th[t].user].balance >= th[t].amount

DepositFees(u) ==
    {r \in transactions : /\ r.type = "FEE" /\ r.user_telegram_id = u
                          /\ r.admin_notes.kind = FeeNote(0).kind}
SaqueFees(u) ==
    {r \in transactions : /\ r.type = "FEE" /\ r.user_telegram_id = u
                          /\ r.admin_notes.kind = SaqueNote(0).kind}
PaidDeposits(u) ==
    {r \in Deposits : r.user_telegram_id = u /\ r.status = STATUS_DEPOSITO_PAGO}
Withdrawals(u) ==
    {r \in transactions : r.type = "WITHDRAWAL" /\ r.user_telegram_id = u}

\* C8: balance = sum(PAID DEPOSIT rows) - sum(deposit FEE rows)
\*               - sum(WITHDRAWAL rows) - sum(withdrawal FEE rows)
C8_LedgerAudit ==
    \A u \in UserIds :
        users[u].exists =>
            users[u].balance = SumAmount(PaidDeposits(u)) - SumAmount(DepositFees(u))
                               - SumAmount(Withdrawals(u)) - SumAmount(SaqueFees(u))

\* C9: every PAID deposit has exactly one FEE row (COMPLETED) naming it, and
\* no PENDING deposit has one.
C9_OneFeeRowPerPaidDeposit ==
    \A d \in Deposits :
        /\ d.status = STATUS_DEPOSITO_PAGO =>
              /\ Cardinality(DepositFeeRows(d.id)) = 1
              /\ \A f \in DepositFeeRows(d.id) : f.status = STATUS_CONCLUIDO
        /\ d.status = STATUS_DEPOSITO_PENDENTE => DepositFeeRows(d.id) = {}

C11_BatchCompleted ==
    [][\A t \in Pollers :
          Len(th[t].batch) >= 2
              => th'[t].batch \in {th[t].batch, Tail(th[t].batch)}]_vars

\* C12: the loop never ends, and after a cycle that ended in an exception a
\* further cycle is started.
C12_LoopSurvives ==
    /\ [](\A t \in Pollers : th[t].pc # "crashed")
    /\ \A t \in Pollers : (th[t].pc = "failed") ~> (th[t].pc # "failed")

\* a cycle has ended in the except clause
C12_Witness == \E t \in Pollers : th[t].pc = "failed" /\ faults > 0

\* C13: a cycle of the poller starts with exactly the committed rows that are
\* DEPOSIT, PENDING and created no earlier than the window before the fetch,
\* and the poller queries and confirms only rows of the batch it fetched.
C13_WindowExclusion ==
    [][\A t \in Pollers :
          /\ (th[t].pc \in {"idle", "failed"} /\ th'[t].batch # <<>>)
                => \A i \in 1..Len(th'[t].batch) :
                      LET r == th'[t].batch[i] IN
                      /\ r \in transactions
                      /\ r.type = "DEPOSIT"
                      /\ r.status = STATUS_DEPOSITO_PENDENTE
                      /\ r.created_at >= now - JanelaHoras
          /\ (th[t].pc \notin {"idle", "failed"} /\ th'[t].batch # <<>>)
                => th'[t].batch \in {th[t].batch, Tail(th[t].batch)}
          /\ th'[t].transaction \notin {NoTx, th[t].transaction}
                => th[t].batch # <<>> /\ th'[t].transaction = Head(th[t].batch)]_vars

\* a cycle is under way that left out a pending, approved deposit older than
\* the window
C13_Witness ==
    \E t \in Pollers, d \in Deposits :
        /\ th[t].pc = "query"
        /\ d.status = STATUS_DEPOSITO_PENDENTE
        /\ d.created_at < now - JanelaHoras
        /\ gateway[d.mercado_pago_id] = "approved"
        /\ \A i \in 1..Len(th[t].batch) : th[t].batch[i].id # d.id

TransactionIds == 1..(2 * MaxDeposits + MaxFaults + 1)

InWindowApproved(id) ==
    \E d \in Deposits :
        /\ d.id = id
        /\ d.status = STATUS_DEPOSITO_PENDENTE
        /\ d.created_at >= now - JanelaHoras
        /\ gateway[d.mercado_pago_id] = "approved"

PaidOnce(id) ==
    \E d \in Deposits :
        d.id = id /\ d.status = STATUS_DEPOSITO_PAGO /\ Credits(id) = 1

LeftWindow(id) ==
    \E d \in Deposits : d.id = id /\ d.created_at < now - JanelaHoras

\* C14: with the poller as the only caller, a deposit is PAID exactly when it
\* was credited, never credited twice, and the deposit a cycle is about to
\* query is still PENDING in the table; a PENDING deposit inside the window
\* that the gateway holds approved ends PAID and credited once, unless the
\* window passes first.
C14_ExactlyOnce ==
    /\ [](\A d \in Deposits :
            /\ Credits(d.id) <= 1
            /\ d.status = STATUS_DEPOSITO_PAGO <=> Credits(d.id) = 1)
    /\ [](\A t \in Pollers :
            th[t].pc = "query" => Head(th[t].batch) \in transactions)
    /\ \A id \in TransactionIds :
            InWindowApproved(id) ~> (PaidOnce(id) \/ LeftWindow(id))

\* a deposit was confirmed and credited once by a cycle that came after a
\* cycle that failed, and the poller is asleep again
C14_Witness ==
    \E t \in Pollers, d \in Deposits :
        /\ PaidOnce(d.id)
        /\ faults > 0
        /\ th[t].pc = "idle"
        /\ gateway[d.mercado_pago_id] = "approved"

\* the thread t sends the 'deposit confirmed' message
Notifies(t) == th[t].pc = "notify" /\ th'[t].pc = "returned" /\ th'[t].result = "True"

\* C15: the 'deposit confirmed' message of a deposit is sent only by an
\* execution whose scope committed the credit, the FEE row and the PAID
\* status of that deposit.
C15_NotifyAfterCommit ==
    [][\A t \in Threads :
          Notifies(t) =>
              /\ ~th[t].conn.aborted
              /\ th[t].conn.wbal # <<>>
              /\ th[t].conn.wrows # {}
              /\ th[t].conn.wstatus # {}
              /\ \E d \in Deposits : /\ d.id = th[t].transaction.id
                                      /\ d.status = STATUS_DEPOSITO_PAGO
              /\ DepositFeeRows(th[t].transaction.id) # {}]_vars

\* C16: when the notification fails after the scope has committed, no balance
\* and no row changes: the credit, the FEE row and the PAID status remain.
C16_NotifyFailureKeepsCommit ==
    [][\A t \in Threads :
          (th[t].pc = "notify" /\ th'[t].pc = "returned" /\ th'[t].result = "False")
              => /\ users' = users
                 /\ transactions' = transactions
                 /\ credited' = credited]_vars

\* a confirmation that committed its credit, FEE row and PAID status has
\* returned False because the notification failed
C16_Witness ==
    \E t \in Threads, d \in Deposits :
        /\ th[t].pc = "returned"
        /\ th[t].result = "False"
        /\ ~th[t].conn.aborted
        /\ th[t].conn.wbal # <<>>
        /\ d.id = th[t].transaction.id
        /\ d.status = STATUS_DEPOSITO_PAGO
        /\ DepositFeeRows(d.id) # {}
        /\ users[d.user_telegram_id].balance = NumericRound(ValorLiquido(d.amount))

\* FEE rows (COMPLETED) that carry a deposit-fee note
DepositFeeRowsAll ==
    {f \in transactions : /\ f.type = "FEE"
                          /\ f.status = STATUS_CONCLUIDO
                          /\ \E id \in 1..(nextId - 1) : f.admin_notes = FeeNote(id)}

\* FEE rows (COMPLETED) whose note names the withdrawal w
SaqueFeeRows(w) ==
    {f \in transactions : /\ f.type = "FEE"
                          /\ f.status = STATUS_CONCLUIDO
                          /\ f.admin_notes = SaqueNote(w.id)}

\* the fees of the withdrawals that are COMPLETED
EarnedSaqueFeeRows(rows) ==
    UNION {SaqueFeeRows(w) : w \in {x \in rows : /\ x.type = "WITHDRAWAL"
                                                 /\ x.status = STATUS_CONCLUIDO}}

\* C17: the profit reported is the sum of the deposit fees and of the fees of
\* the withdrawals that are COMPLETED; completing a withdrawal adds its fee to
\* the profit, rejecting it adds nothing.
C17_RealizedProfit ==
    [][/\ \A t \in Handlers :
            (th'[t].result = "lucro" /\ th'[t] # th[t])
                => th'[t].amount = SumAmount(DepositFeeRowsAll)
                                     + SumAmount(EarnedSaqueFeeRows(transactions))
       /\ \A w \in transactions :
            (w.type = "WITHDRAWAL" /\ w.status = STATUS_EM_ANALISE) =>
              /\ SaqueFeeRows(w) \cap EarnedSaqueFeeRows(transactions) = {}
              /\ [w EXCEPT !.status = STATUS_CONCLUIDO] \in transactions'
                    => CalculateProfits(transactions') =
                         CalculateProfits(transactions) + SumAmount(SaqueFeeRows(w))
              /\ [w EXCEPT !.status = STATUS_RECUSADO] \in transactions'
                    => CalculateProfits(transactions') = CalculateProfits(transactions)]_vars

\* a profit was reported that counts the fee of a completed withdrawal on top
\* of a deposit fee
C17_Witness ==
    \E t \in Handlers, w \in transactions :
        /\ th[t].result = "lucro"
        /\ w.type = "WITHDRAWAL"
        /\ w.status = STATUS_CONCLUIDO
        /\ SaqueFeeRows(w) # {}
        /\ DepositFeeRowsAll # {}
        /\ th[t].amount = SumAmount(DepositFeeRowsAll) + SumAmount(SaqueFeeRows(w))

\* C18: a confirmation that commits stores a FEE row of the fee rounded to
\* cents, raises the stored balance by exactly the deposit amount less that
\* fee, and leaves the deposit PAID.
C18_DepositFeeAccounting ==
    [][\A t \in Threads :
          (ConfirmCommits(t) /\ ~th[t].conn.aborted /\ th[t].conn.wbal # <<>>) =>
              LET A == th[t].transaction.amount
                  u == th[t].transaction.user_telegram_id
                  fee == NumericRound(TaxaDeposito(A))
              IN /\ \E f \in transactions' \ transactions :
                        /\ f.type = "FEE"
                        /\ f.admin_notes = FeeNote(th[t].transaction.id)
                        /\ f.amount = fee
                 /\ users'[u].balance = users[u].balance + (A - fee)
                 /\ \E d \in transactions' :
                        /\ d.id = th[t].transaction.id
                        /\ d.status = STATUS_DEPOSITO_PAGO]_vars

\* n is the quotient (G - fixed fee) / (1 + percentage) rounded to cents
IsNetOf(n, G) ==
    LET num == (G - TAXA_SAQUE_FIXA) * 100
        den == 100 + TAXA_SAQUE_PERCENTUAL
        diff == n * den - num
    IN 2 * (IF diff >= 0 THEN diff ELSE 0 - diff) <= den

\* the thread t takes its COMMIT step of a withdrawal that has not failed
SaqueCommits(t) ==
    th[t].pc = "saq_commit" /\ th'[t].pc = "saq_notify" /\ ~th[t].conn.aborted

\* C19: a withdrawal of gross debit G that commits lowers the balance by G and
\* adds a WITHDRAWAL row (UNDER_REVIEW) of the net amount and a FEE row
\* (COMPLETED) naming it, whose amounts add up to G.
C19_SaqueFeeAccounting ==
    [][\A t \in Handlers :
          SaqueCommits(t) =>
              LET G == th[t].amount
                  u == th[t].user
              IN /\ users'[u].balance = users[u].balance - G
                 /\ \E w, f \in transactions' \ transactions :
                        /\ transactions' \ transactions = {w, f}
                        /\ w.type = "WITHDRAWAL"
                        /\ w.status = STATUS_EM_ANALISE
                        /\ w.user_telegram_id = u
                        /\ IsNetOf(w.amount, G)
                        /\ f.type = "FEE"
                        /\ f.status = STATUS_CONCLUIDO
                        /\ f.user_telegram_id = u
                        /\ f.admin_notes = SaqueNote(w.id)
                        /\ f.amount = G - w.amount
                        /\ w.amount + f.amount = G]_vars

\* /sacar 89 from a balance of 89.00 is committed: 82.86 to pay, fee 6.14,
\* balance 0.00
C19_Witness ==
    \E w, f \in transactions :
        /\ w.type = "WITHDRAWAL"
        /\ w.amount = 8286
        /\ f.type = "FEE"
        /\ f.admin_notes = SaqueNote(w.id)
        /\ f.amount = 614
        /\ users[w.user_telegram_id].balance = 0

\* the request of gross debit G by user u fails one of the three conditions
\* (a quotient rounds to less than the minimum when it lies more than half a
\* cent below it)
SaqueRejected(u, G) ==
    \/ G <= TAXA_SAQUE_FIXA
    \/ 2 * (G - TAXA_SAQUE_FIXA) * 100
          < (2 * LIMITE_MINIMO_SAQUE - 1) * (100 + TAXA_SAQUE_PERCENTUAL)
    \/ GetBalance(users', u) < G

\* C20: a request that fails one of the three conditions changes no balance,
\* inserts no row and attempts nothing; the debit is attempted only for a
\* request that meets all three.
C20_SaquePreconditions ==
    [][\A t \in Handlers :
          /\ \A u \in UserIds, G \in SaquePedidos :
                (SaqueStart(t, u, G) /\ SaqueRejected(u, G))
                    => /\ th'[t].pc = "idle"
                       /\ transactions' = transactions
                       /\ \A v \in UserIds : GetBalance(users', v) = GetBalance(users, v)
          /\ (th[t].pc = "idle" /\ th'[t].pc = "saq_debit")
                => /\ ~SaqueRejected(th'[t].user, th'[t].amount)
                   /\ transactions' = transactions
                   /\ \A v \in UserIds : GetBalance(users', v) = GetBalance(users, v)
          /\ (th[t].pc = "idle" /\ th'[t].pc # "idle") => th'[t].pc = "saq_debit"]_vars

\* a request was turned down although its user holds a confirmed deposit:
\* nobody is in the atomic block and no WITHDRAWAL row exists
C20_Witness ==
    /\ calls.saque > 0
    /\ \A t \in Handlers : th[t].pc = "idle"
    /\ \A r \in transactions : r.type # "WITHDRAWAL"
    /\ \E u \in UserIds : users[u].balance = 8900

\* PAID for deposits; COMPLETED or REJECTED for withdrawals; COMPLETED for fees
Terminal(r) ==
    \/ r.type = "DEPOSIT" /\ r.status = STATUS_DEPOSITO_PAGO
    \/ r.type = "WITHDRAWAL" /\ r.status \in {STATUS_CONCLUIDO, STATUS_RECUSADO}
    \/ r.type = "FEE" /\ r.status = STATUS_CONCLUIDO

\* C21: a transaction whose status is terminal keeps that status in every
\* step.
C21_NoRegression ==
    [][\A r \in transactions :
          Terminal(r) => \E q \in transactions' : q.id = r.id /\ q.status = r.status]_vars

\* C22: no store operation called while the store is unreachable lets the
\* exception of the connection reach its caller.
C22_FailureValueReturned == \A t \in Handlers : th[t].result # "raised"

PaidAndCredited(id) ==
    \E d \in Deposits :
        /\ d.id = id
        /\ d.status = STATUS_DEPOSITO_PAGO
        /\ Credits(id) >= 1
        /\ users[d.user_telegram_id].balance >= NumericRound(ValorLiquido(d.amount))

\* the ids a deposit can get: each earlier deposit took one id and at most
\* one more for its FEE row
BatchIds == 1..(2 * MaxBatch - 1)

HelperPcs == {"credit", "fee", "status", "saq_debit", "saq_record", "saq_fee"}

\* C24: a step of a helper that was given conn_ext changes no committed row
\* and no committed balance and ends no lock of its connection, whether it
\* succeeds or fails; the writes of the scope reach the tables in the COMMIT
\* step of the caller, and a scope that ends without COMMIT leaves the tables
\* as they were.
C24_ScopeParticipation ==
    [][\A t \in Threads :
          /\ (th[t].pc \in HelperPcs /\ th'[t] # th[t] /\ th'[t].pc # "idle") =>
                /\ users' = users
                /\ transactions' = transactions
                /\ \A u \in UserIds : rowLock[u].owner = t => rowLock'[u] = rowLock[u]
          /\ (th[t].pc \in HelperPcs /\ th'[t] # th[t] /\ th'[t].pc = "idle") =>
                /\ users' = users
                /\ transactions' = transactions
          /\ (th[t].pc \in {"commit", "saq_commit"} /\ th'[t].pc # th[t].pc) =>
                /\ users' = CommitUsers(th[t].conn)
                /\ transactions' = CommitTransactions(th[t].conn)]_vars

\* a scope holds a balance and two rows that the tables do not show
C24_Witness ==
    \E t \in Threads :
        /\ th[t].pc = "saq_commit"
        /\ ~th[t].conn.aborted
        /\ th[t].conn.wbal # <<>>
        /\ Cardinality(th[t].conn.wrows) = 2
        /\ th[t].conn.wrows \cap transactions = {}
        /\ users[th[t].user].balance # th[t].conn.wbal[1].balance

\* the withdrawals of u that are committed
SaquesOf(u) == {w \in transactions : w.type = "WITHDRAWAL" /\ w.user_telegram_id = u}

\* the sum of the gross debits of the committed withdrawals of u: what the
\* user receives plus the fee row that names the withdrawal
GrossDebits(u) ==
    SumAmount(SaquesOf(u)) + SumAmount(UNION {SaqueFeeRows(w) : w \in SaquesOf(u)})

\* the handler told its user that the request was submitted
Submitted(t) == th[t].pc = "saq_notify" /\ ~th[t].conn.aborted

\* C25: the balance never goes below zero and is what the confirmed deposit
\* credited less the gross debits of the committed withdrawals, so that a
\* request that did not commit left no row; and two requests of one user that
\* passed the pre-check against the same balance B and both committed debit
\* together at most B.
C25_NoOverdraw ==
    /\ \A u \in Depositors :
          /\ users[u].balance >= 0
          /\ users[u].balance + GrossDebits(u) =
                SumAmount({[amount |-> ValorLiquido(d.amount) \div 100, id |-> d.id] :
                             d \in {r \in Deposits : /\ r.user_telegram_id = u
                                                      /\ r.status = STATUS_DEPOSITO_PAGO}})
    /\ \A t1, t2 \in Handlers :
          ( /\ t1 # t2
            /\ Submitted(t1) /\ Submitted(t2)
            /\ th[t1].user = th[t2].user
            /\ th[t1].saldo_atual = th[t2].saldo_atual )
          => th[t1].amount + th[t2].amount <= th[t1].saldo_atual

\* two requests passed the pre-check against the same balance and ask together
\* for more than it; one is committed and the other is about to be refused
C25_Witness ==
    \E t1, t2 \in Handlers :
        /\ Submitted(t1)
        /\ th[t2].pc = "saq_debit"
        /\ th[t1].user = th[t2].user
        /\ th[t1].saldo_atual = th[t2].saldo_atual
        /\ th[t1].amount + th[t2].amount > th[t1].saldo_atual
        /\ users[th[t1].user].balance = th[t1].saldo_atual - th[t1].amount
        /\ SaquesOf(th[t1].user) # {}

\* the manual-adjustment rows a step commits
NewAjusteRows == {r \in transactions' \ transactions : r.type = "AJUSTE_MANUAL"}

\* C26: a step of admin_set_balance commits the new balance exactly when it
\* commits the manual-adjustment row: the row and the balance become visible
\* together, or neither does.
C26_AdminAtomic ==
    [][\A t \in Handlers :
          (th[t].pc \in {"adm_record", "adm_commit"} /\ th'[t] # th[t])
              => /\ NewAjusteRows # {} => users' = CommitUsers(th[t].conn)
                 /\ users' # users => NewAjusteRows # {}]_vars

\* the call of thread t went through a COMMIT that made its credit, its FEE
\* row and the PAID status of its deposit durable
CommittedAll(t) ==
    /\ ~th[t].conn.aborted
    /\ th[t].conn.wbal # <<>>
    /\ th[t].conn.wrows # {}
    /\ th[t].conn.wstatus # {}

\* C27: a call of processar_pagamento_aprovado that has returned gave True
\* exactly when it committed the credit, the FEE row and the PAID status: True
\* never after a scope that committed nothing, False never after a commit.
C27_ReturnValue ==
    \A t \in Threads :
        th[t].pc = "returned" => (th[t].result = "True" <=> CommittedAll(t))

\* the withdrawals that wait for the admin
UnderReview == {w \in transactions : w.type = "WITHDRAWAL" /\ w.status = STATUS_EM_ANALISE}

\* a step that raises the balance of u is the COMMIT of a deposit confirmation
\* crediting the net amount of its deposit, or the COMMIT of admin_set_balance
RaisedByCreditOrAdmin(u) ==
    \E t \in Threads :
        \/ /\ th[t].pc = "commit" /\ th'[t].pc = "notify"
           /\ th[t].transaction.type = "DEPOSIT"
           /\ users'[u].balance = users[u].balance + NumericRound(th[t].net)
        \/ /\ th[t].pc = "adm_commit" /\ th'[t].pc = "idle"
           /\ users'[u].balance = th[t].amount

\* C28: a step of the core leaves every withdrawal that is UNDER_REVIEW as it
\* is (status, amount, owner and all), and while a withdrawal of a user is
\* UNDER_REVIEW nothing gives that user money back: the balance rises only by
\* the credit of a confirmed deposit or by admin_set_balance.
C28_AwaitsAdmin ==
    [][\A w \in UnderReview :
          /\ w \in transactions'
          /\ users'[w.user_telegram_id].balance > users[w.user_telegram_id].balance
                => RaisedByCreditOrAdmin(w.user_telegram_id)]_vars

\* a withdrawal is UNDER_REVIEW, and after it was recorded a deposit of its
\* owner was confirmed and another withdrawal was recorded
C28_Witness ==
    \E w \in UnderReview :
        /\ \E d \in Deposits : /\ d.id > w.id
                                /\ d.user_telegram_id = w.user_telegram_id
                                /\ d.status = STATUS_DEPOSITO_PAGO
        /\ \E v \in UnderReview : v.id > w.id

\* the handler t notifies the admin of the request and tells the user that
\* it was submitted
ReportsSubmitted(t) == th[t].pc = "saq_notify" /\ th'[t].pc = "idle"

\* C29: the admin is notified and the user is told that the request was
\* submitted only when the scope committed: the WITHDRAWAL row carries the id
\* that is reported, a FEE row names that id, and the gross debit was applied.
C29_ReportedOnlyCommitted ==
    [][\A t \in Handlers :
          ReportsSubmitted(t) =>
              /\ ~th[t].conn.aborted
              /\ th[t].wid > 0
              /\ \E w \in SaquesOf(th[t].user) :
                    /\ w.id = th[t].wid
                    /\ SaqueFeeRows(w) # {}]_vars

\* C30: a /verificar request goes on to the gateway only with a committed
\* transaction that belongs to the requesting user and is PENDING; a request
\* that names a transaction of somebody else is refused and changes no
\* balance and no transaction; the confirmation that follows runs for the
\* requesting user's own deposit, and its COMMIT changes no balance but the
\* owner's.
C30_Ownership ==
    [][\A t \in Handlers :
          /\ (th[t].pc = "idle" /\ th'[t].pc = "ver_query") =>
                /\ th'[t].transaction \in transactions
                /\ th'[t].transaction.user_telegram_id = th'[t].user
                /\ th'[t].transaction.status = STATUS_DEPOSITO_PENDENTE
          /\ (th[t].pc = "idle" /\ th'[t] # th[t] /\ th'[t].result = "nao encontrada") =>
                /\ users' = users
                /\ transactions' = transactions
          /\ (th[t].pc = "ver_query" /\ th'[t].pc = "credit") =>
                /\ th'[t].user = th[t].user
                /\ th'[t].transaction = th[t].transaction
          /\ (th[t].pc = "commit" /\ th'[t].pc = "notify") =>
                \A x \in UserIds \ {th[t].transaction.user_telegram_id} :
                    users'[x] = users[x]]_vars

\* a user was refused the verification of a pending, approved deposit of
\* another user, and that deposit is still pending and its owner's balance
\* untouched
C30_Witness ==
    \E t \in Handlers, d \in Deposits :
        /\ th[t].pc = "idle"
        /\ th[t].result = "nao encontrada"
        /\ th[t].wid = d.id
        /\ th[t].user # d.user_telegram_id
        /\ users[th[t].user].exists
        /\ d.status = STATUS_DEPOSITO_PENDENTE
        /\ gateway[d.mercado_pago_id] = "approved"
        /\ users[d.user_telegram_id].balance = 0

\* the handler t has served a /start request in this step
Started(t) == th[t].pc = "idle" /\ th'[t].result = "start" /\ th'[t] # th[t]

\* C31: a /start request creates the user with balance 0 and the name given
\* when the user has no row, and leaves the whole users table as it is when
\* the user has one; and no step takes the row of a user away.
C31_LazyCreation ==
    [][/\ \A t \in Handlers :
            Started(t) =>
                LET u == th'[t].user IN
                IF users[u].exists
                THEN users' = users
                ELSE users' = [users EXCEPT ![u] =
                                 [exists |-> TRUE, balance |-> 0,
                                  first_name |-> th'[t].resp]]
       /\ \A u \in UserIds : users[u].exists => users'[u].exists]_vars

\* a user with money in the account started the bot again under another name:
\* the balance and the name stored are the old ones
C31_Witness ==
    \E t \in Handlers :
        /\ th[t].result = "start"
        /\ users[th[t].user].exists
        /\ users[th[t].user].balance > 0
        /\ th[t].amount = users[th[t].user].balance
        /\ users[th[t].user].first_name # th[t].resp

\* the direct update_balance call of thread t commits and returns True
ReturnsTrue(t) ==
    th[t].pc = "ub_update" /\ th'[t].pc = "idle" /\ th'[t].result = "True"

\* C32: when update_balance(user, delta) returns True, the balance stored for
\* that user after the commit is the balance before plus delta, also for a
\* user without a row (whose balance reads as 0.00).
C32_TrueMeansChanged ==
    [][\A t \in Handlers :
          ReturnsTrue(t) =>
              GetBalance(users', th[t].user) =
                  GetBalance(users, th[t].user) + th[t].amount]_vars

====
